---- MODULE Spec2Model ----
(***************************************************************************)
(* Model of the chaossearch Terraform provider client:                     *)
(*   client.ReadObjectGroup (bucket-tag mapping, filter rewrite, dataset   *)
(*   endpoint), client.SetActive and the provider's providerConfigure.     *)
(*                                                                         *)
(* Texts (Go strings that hold JSON or tag values) are sequences of        *)
(* lexical tokens; every token is a TLA+ string holding the token's raw    *)
(* characters.  encoding/json is modelled by a parser over those tokens    *)
(* and by typed decoders that follow the rules of json.Unmarshal.          *)
(***************************************************************************)
EXTENDS Integers, Sequences, FiniteSets, TLC

VARIABLES
  op,        \* the operation in progress, "idle" between operations
  pc,        \* its position: "tagging", "dataset", "again", "done"
  req,       \* its request / arguments
  tagging,   \* the GetBucketTaggingOutput.TagSet the read received
  resp,      \* ReadObjectGroup's resp (var resp ReadObjectGroupResponse)
  getDatasetResp, \* the decoded dataset description, as the endpoint sent it
  rewriteRan, \* whether the read called ConvertFilterJSON
  ret,       \* what the operation returned: [val, err]
  calls,     \* the external calls issued, in order
  body,      \* SetActive's bodyAsBytes
  csClient,  \* providerConfigure: the client built by client.NewClient
  logFile,   \* providerConfigure: the log file
  cvIn,      \* filter text given to ConvertFilterJSON / the rewrite step
  cvOut,     \* its result
  cvAgain    \* the result of the rewrite step applied to its own output

vars == <<op, pc, req, tagging, resp, getDatasetResp, rewriteRan, ret, calls,
          body, csClient, logFile, cvIn, cvOut, cvAgain>>

(***************************************************************************)
(* Bounds of the model.                                                    *)
(***************************************************************************)
MaxAnd == 2
MaxSel == 2

(***************************************************************************)
(* Lexical layer.  A string literal token carries its raw spelling and the *)
(* value it decodes to; canon marks the spelling json.Marshal emits for    *)
(* that value (Marshal escapes <, > and & as \u00XX).                      *)
(***************************************************************************)
StrLits ==
  { [raw |-> "\"AND\"",               val |-> "AND",               canon |-> TRUE],
    [raw |-> "\"and\"",               val |-> "and",               canon |-> TRUE],
    [raw |-> "\"OR\"",                val |-> "OR",                canon |-> TRUE],
    [raw |-> "\"field\"",             val |-> "field",             canon |-> TRUE],
    [raw |-> "\"regex\"",             val |-> "regex",             canon |-> TRUE],
    [raw |-> "\"pattern\"",           val |-> "pattern",           canon |-> TRUE],
    [raw |-> "\"patt\\u0065rn\"",     val |-> "pattern",           canon |-> FALSE],
    [raw |-> "\"strict\"",            val |-> "strict",            canon |-> TRUE],
    [raw |-> "\"key\"",               val |-> "key",               canon |-> TRUE],
    [raw |-> "\".*\"",                val |-> ".*",                canon |-> TRUE],
    [raw |-> "\"<\"",                 val |-> "<",                 canon |-> FALSE],
    [raw |-> "\"\\u003c\"",           val |-> "<",                 canon |-> TRUE],
    [raw |-> "\"\"",                  val |-> "",                  canon |-> TRUE],
    [raw |-> "\"_type\"",             val |-> "_type",             canon |-> TRUE],
    [raw |-> "\"arrayFlattenDepth\"", val |-> "arrayFlattenDepth", canon |-> TRUE],
    [raw |-> "\"keepOriginal\"",      val |-> "keepOriginal",      canon |-> TRUE],
    [raw |-> "\"horizontal\"",        val |-> "horizontal",        canon |-> TRUE],
    [raw |-> "\"overall\"",           val |-> "overall",           canon |-> TRUE],
    [raw |-> "\"JSON\"",              val |-> "JSON",              canon |-> TRUE],
    [raw |-> "\"30\"",                val |-> "30",                canon |-> TRUE],
    [raw |-> "\"BucketName\"",        val |-> "BucketName",        canon |-> TRUE],
    [raw |-> "\"ModelMode\"",         val |-> "ModelMode",         canon |-> TRUE],
    [raw |-> "\"og-a\"",              val |-> "og-a",              canon |-> TRUE],
    [raw |-> "\"og-b\"",              val |-> "og-b",              canon |-> TRUE] }

NumLits ==
  { [raw |-> "30",  isInt |-> TRUE,  val |-> 30],
    [raw |-> "1",   isInt |-> TRUE,  val |-> 1],
    [raw |-> "0",   isInt |-> TRUE,  val |-> 0],
    [raw |-> "-1",  isInt |-> TRUE,  val |-> -1],
    [raw |-> "1.5", isInt |-> FALSE, val |-> 0] }

IsStrTok(tok) == \E l \in StrLits : l.raw = tok
IsNumTok(tok) == \E l \in NumLits : l.raw = tok
IsSpace(tok)  == tok = " "

\* strconv-style unquoting done by the decoder's literal scanner.
Unquote(tok) == (CHOOSE l \in StrLits : l.raw = tok).val
\* The encoder's string spelling (HTML escaping on).
Quote(s) == (CHOOSE l \in StrLits : l.val = s /\ l.canon).raw

\* Raw tokens whose characters contain the substring "pattern".  Quoted
\* literals begin and end with a quote, so the needle cannot span two
\* tokens; the bare word is an (invalid JSON) token of its own.
NeedleToks == { "\"pattern\"", "pattern" }

\* strings.Contains(text, "pattern")
Contains(text) == \E i \in 1..Len(text) : text[i] \in NeedleToks

(***************************************************************************)
(* JSON syntax: a recursive-descent parser over the tokens.  A value is    *)
(* [t, s, a]: t the kind, s the scalar (decoded string, raw number, or     *)
(* true/false), a the array elements or the object members [k, v].         *)
(***************************************************************************)
\* The(S) is the element of a singleton S; { e(x) : x \in {v} } binds x to
\* the value of v once, where the value is used more than once.
The(S) == CHOOSE x \in S : TRUE

JV(t, s, a) == [t |-> t, s |-> s, a |-> a]
POk(v, n)   == [ok |-> TRUE, v |-> v, n |-> n]
PFail       == [ok |-> FALSE, v |-> JV("null", "", <<>>), n |-> 0]

RECURSIVE ParseValue(_, _), ParseElems(_, _, _), ParseMembers(_, _, _)

ParseValue(t, i) ==
  IF i > Len(t) THEN PFail
  ELSE IF t[i] = "{" THEN
         IF i + 1 <= Len(t) /\ t[i + 1] = "}"
         THEN POk(JV("obj", "", <<>>), i + 2)
         ELSE ParseMembers(t, i + 1, <<>>)
  ELSE IF t[i] = "[" THEN
         IF i + 1 <= Len(t) /\ t[i + 1] = "]"
         THEN POk(JV("arr", "", <<>>), i + 2)
         ELSE ParseElems(t, i + 1, <<>>)
  ELSE IF IsStrTok(t[i]) THEN POk(JV("str", Unquote(t[i]), <<>>), i + 1)
  ELSE IF IsNumTok(t[i]) THEN POk(JV("num", t[i], <<>>), i + 1)
  ELSE IF t[i] \in {"true", "false"} THEN POk(JV("bool", t[i], <<>>), i + 1)
  ELSE IF t[i] = "null" THEN POk(JV("null", "", <<>>), i + 1)
  ELSE PFail

ParseElems(t, i, acc) ==
  The({ IF ~e.ok \/ e.n > Len(t) THEN PFail
        ELSE IF t[e.n] = "," THEN ParseElems(t, e.n + 1, Append(acc, e.v))
        ELSE IF t[e.n] = "]" THEN POk(JV("arr", "", Append(acc, e.v)), e.n + 1)
        ELSE PFail
        : e \in {ParseValue(t, i)} })

ParseMembers(t, i, acc) ==
  IF i + 1 > Len(t) \/ ~IsStrTok(t[i]) \/ t[i + 1] # ":" THEN PFail
  ELSE The({ IF ~e.ok \/ e.n > Len(t) THEN PFail
             ELSE IF t[e.n] = ","
               THEN ParseMembers(t, e.n + 1,
                                 Append(acc, [k |-> Unquote(t[i]), v |-> e.v]))
             ELSE IF t[e.n] = "}"
               THEN POk(JV("obj", "", Append(acc, [k |-> Unquote(t[i]), v |-> e.v])),
                        e.n + 1)
             ELSE PFail
             : e \in {ParseValue(t, i + 2)} })

\* checkValid + scan of a whole document: white space is skipped between
\* tokens and nothing may follow the value.
Parse(text) ==
  The({ The({ IF p.ok /\ p.n = Len(t) + 1 THEN p ELSE PFail
              : p \in {ParseValue(t, 1)} })
        : t \in {SelectSeq(text, LAMBDA tok : ~IsSpace(tok))} })

(***************************************************************************)
(* Typed decoding, as json.Unmarshal does it: null leaves the destination  *)
(* alone; a value of the wrong kind records an UnmarshalTypeError and      *)
(* decoding goes on; object keys match a field by exact name, else         *)
(* case-insensitively; unknown keys are skipped.                           *)
(***************************************************************************)
Fold(s) == IF s = "and" THEN "AND" ELSE s
KeyMatches(k, name) == k = name \/ Fold(k) = Fold(name)

DOk(v)  == [val |-> v, err |-> FALSE]
DErr(v) == [val |-> v, err |-> TRUE]

DecodeString(cur, v) ==
  IF v.t = "null" THEN DOk(cur)
  ELSE IF v.t = "str" THEN DOk(v.s) ELSE DErr(cur)

DecodeBool(cur, v) ==
  IF v.t = "null" THEN DOk(cur)
  ELSE IF v.t = "bool" THEN DOk(v.s = "true") ELSE DErr(cur)

NumOf(raw) == CHOOSE l \in NumLits : l.raw = raw

DecodeInt(cur, v) ==
  IF v.t = "null" THEN DOk(cur)
  ELSE IF v.t = "num" /\ NumOf(v.s).isInt THEN DOk(NumOf(v.s).val) ELSE DErr(cur)

\* *int: nil is [set |-> FALSE]; null stores nil, a number allocates.
NilInt == [set |-> FALSE, val |-> 0]
DecodeIntPtr(cur, v) ==
  IF v.t = "null" THEN DOk(NilInt)
  ELSE IF v.t = "num" /\ NumOf(v.s).isInt
       THEN DOk([set |-> TRUE, val |-> NumOf(v.s).val])
       ELSE DErr(cur)

(***************************************************************************)
(* InputFilter and DesiredFilter, and json.Unmarshal into an InputFilter.  *)
(***************************************************************************)
ZeroRegex == [Pattern |-> "", Strict |-> FALSE]
ZeroItem  == [Field |-> "", Regex |-> ZeroRegex]

\* Store the decoded d = [val, err] in field f of the struct cur.val.
Set(cur, f, d) ==
  The({ [val |-> [cur.val EXCEPT ![f] = x.val], err |-> cur.err \/ x.err]
        : x \in {d} })

RECURSIVE RegexFields(_, _, _), ItemFields(_, _, _), ANDElems(_, _, _),
          InputFilterFields(_, _, _)

RegexField(cur, m) ==
  IF KeyMatches(m.k, "pattern")
    THEN Set(cur, "Pattern", DecodeString(cur.val.Pattern, m.v))
  ELSE IF KeyMatches(m.k, "strict")
    THEN Set(cur, "Strict", DecodeBool(cur.val.Strict, m.v))
  ELSE cur

RegexFields(cur, ms, i) ==
  IF i > Len(ms) THEN cur
  ELSE The({ RegexFields(n, ms, i + 1) : n \in {RegexField(cur, ms[i])} })

DecodeRegex(cur, v) ==
  IF v.t = "null" THEN DOk(cur)
  ELSE IF v.t = "obj" THEN RegexFields(DOk(cur), v.a, 1) ELSE DErr(cur)

ItemField(cur, m) ==
  IF KeyMatches(m.k, "field")
    THEN Set(cur, "Field", DecodeString(cur.val.Field, m.v))
  ELSE IF KeyMatches(m.k, "regex")
    THEN Set(cur, "Regex", DecodeRegex(cur.val.Regex, m.v))
  ELSE cur

ItemFields(cur, ms, i) ==
  IF i > Len(ms) THEN cur
  ELSE The({ ItemFields(n, ms, i + 1) : n \in {ItemField(cur, ms[i])} })

DecodeItem(cur, v) ==
  IF v.t = "null" THEN DOk(cur)
  ELSE IF v.t = "obj" THEN ItemFields(DOk(cur), v.a, 1) ELSE DErr(cur)

\* The elements of a JSON array, each decoded into a fresh slice element.
ANDElem(cur, e) ==
  The({ [val |-> Append(cur.val, d.val), err |-> cur.err \/ d.err]
        : d \in {DecodeItem(ZeroItem, e)} })

ANDElems(cur, es, i) ==
  IF i > Len(es) THEN cur
  ELSE The({ ANDElems(n, es, i + 1) : n \in {ANDElem(cur, es[i])} })

DecodeAND(cur, v) ==
  IF v.t = "null" THEN DOk(<<>>)
  ELSE IF v.t = "arr" THEN ANDElems(DOk(<<>>), v.a, 1) ELSE DErr(cur)

InputFilterField(cur, m) ==
  IF KeyMatches(m.k, "AND")
    THEN Set(cur, "AND", DecodeAND(cur.val.AND, m.v))
  ELSE cur

InputFilterFields(cur, ms, i) ==
  IF i > Len(ms) THEN cur
  ELSE The({ InputFilterFields(n, ms, i + 1)
             : n \in {InputFilterField(cur, ms[i])} })

\* json.Unmarshal([]byte(input), &inputFilter)
UnmarshalInputFilter(input) ==
  The({ IF ~p.ok THEN DErr([AND |-> <<>>])
        ELSE IF p.v.t = "null" THEN DOk([AND |-> <<>>])
        ELSE IF p.v.t = "obj"
          THEN InputFilterFields(DOk([AND |-> <<>>]), p.v.a, 1)
        ELSE DErr([AND |-> <<>>])
        : p \in {Parse(input)} })

\* The loop that builds desiredFilter.AND by append from a nil slice.
RECURSIVE AppendDesired(_, _, _)
AppendDesired(acc, items, i) ==
  IF i > Len(items) THEN acc
  ELSE AppendDesired(Append(acc, [Field |-> items[i].Field,
                                   Regex |-> items[i].Regex.Pattern]),
                     items, i + 1)

\* json.Marshal(desiredFilter): a nil slice is written as null.
RECURSIVE MarshalItems(_, _)
MarshalItems(items, i) ==
  IF i > Len(items) THEN <<>>
  ELSE (IF i > 1 THEN <<",">> ELSE <<>>)
       \o <<"{", "\"field\"", ":", Quote(items[i].Field), ",",
            "\"regex\"", ":", Quote(items[i].Regex), "}">>
       \o MarshalItems(items, i + 1)

MarshalDesiredFilter(and) ==
  The({ IF Len(a) = 0 THEN <<"{", "\"AND\"", ":", "null", "}">>
        ELSE <<"{", "\"AND\"", ":", "[">> \o MarshalItems(a, 1) \o <<"]", "}">>
        : a \in {and} })

\* ConvertFilterJSON: [out, err]; on error the returned string is empty.
ConvertFilterJSON(input) ==
  The({ IF d.err THEN [out |-> <<>>, err |-> TRUE]
        ELSE [out |-> MarshalDesiredFilter(AppendDesired(<<>>, d.val.AND, 1)),
              err |-> FALSE]
        : d \in {UnmarshalInputFilter(input)} })

(***************************************************************************)
(* The two JSON-valued tags: cs3.dataset-format (filterObject) and         *)
(* cs3.index-retention (retentionObject).                                  *)
(***************************************************************************)
ZeroFilterObject ==
  [Type |-> "", Pattern |-> "", ArrayFlattenDepth |-> NilInt,
   KeepOriginal |-> FALSE, Horizontal |-> FALSE]
ZeroRetentionObject == [Overall |-> 0]

RECURSIVE FilterObjectFields(_, _, _), RetentionObjectFields(_, _, _)

FilterObjectField(cur, m) ==
  IF KeyMatches(m.k, "_type")
    THEN Set(cur, "Type", DecodeString(cur.val.Type, m.v))
  ELSE IF KeyMatches(m.k, "pattern")
    THEN Set(cur, "Pattern", DecodeString(cur.val.Pattern, m.v))
  ELSE IF KeyMatches(m.k, "arrayFlattenDepth")
    THEN Set(cur, "ArrayFlattenDepth",
             DecodeIntPtr(cur.val.ArrayFlattenDepth, m.v))
  ELSE IF KeyMatches(m.k, "keepOriginal")
    THEN Set(cur, "KeepOriginal", DecodeBool(cur.val.KeepOriginal, m.v))
  ELSE IF KeyMatches(m.k, "horizontal")
    THEN Set(cur, "Horizontal", DecodeBool(cur.val.Horizontal, m.v))
  ELSE cur

FilterObjectFields(cur, ms, i) ==
  IF i > Len(ms) THEN cur
  ELSE The({ FilterObjectFields(n, ms, i + 1)
             : n \in {FilterObjectField(cur, ms[i])} })

RetentionObjectField(cur, m) ==
  IF KeyMatches(m.k, "overall")
    THEN Set(cur, "Overall", DecodeInt(cur.val.Overall, m.v))
  ELSE cur

RetentionObjectFields(cur, ms, i) ==
  IF i > Len(ms) THEN cur
  ELSE The({ RetentionObjectFields(n, ms, i + 1)
             : n \in {RetentionObjectField(cur, ms[i])} })

\* json.Unmarshal([]byte(text), v) for the two struct shapes v can have.
Unmarshal(shape, text, cur) ==
  The({ IF ~p.ok THEN DErr(cur)
        ELSE IF p.v.t = "null" THEN DOk(cur)
        ELSE IF p.v.t # "obj" THEN DErr(cur)
        ELSE IF shape = "filterObject"
          THEN FilterObjectFields(DOk(cur), p.v.a, 1)
        ELSE RetentionObjectFields(DOk(cur), p.v.a, 1)
        : p \in {Parse(text)} })

(***************************************************************************)
(* Tag-value codec.  A tag set is a sequence of [Key, Value].              *)
(***************************************************************************)
HasTag(tags, key) == \E i \in 1..Len(tags) : tags[i].Key = key

\* findTagValue: the first tag with the key, else an error.
findTagValue(tags, key) ==
  IF HasTag(tags, key)
  THEN [val |-> tags[CHOOSE j \in 1..Len(tags) :
                       /\ tags[j].Key = key
                       /\ \A k \in 1..(j - 1) : tags[k].Key # key].Value,
        err |-> FALSE]
  ELSE [val |-> <<>>, err |-> TRUE]

\* readStringTagValue: [val, err], val the destination afterwards.
readStringTagValueStrict(tags, key, v) ==
  The({ IF f.err THEN DErr(v) ELSE DOk(f.val) : f \in {findTagValue(tags, key)} })

readStringTagValue(tags, key, v) ==
  The({ IF f.err THEN DOk(v) ELSE DOk(f.val) : f \in {findTagValue(tags, key)} })

\* readJSONTagValue: [val, err], val the destination afterwards.
readJSONTagValueLenient(tags, key, shape, v) ==
  The({ IF f.err THEN DOk(v) ELSE DOk(Unmarshal(shape, f.val, v).val)
        : f \in {findTagValue(tags, key)} })

readJSONTagValue(tags, key, shape, v) ==
  The({ IF f.err THEN DOk(v) ELSE Unmarshal(shape, f.val, v)
        : f \in {findTagValue(tags, key)} })

\* The QUICKFIX block: needle test, then ConvertFilterJSON.
RewriteTriggerAlways(filterJSON) == TRUE

RewriteTrigger(filterJSON) == Contains(filterJSON)

\* [val, err, ran]: the FilterJSON afterwards, the error, and whether
\* ConvertFilterJSON was called.
RewriteFilter(filterJSON) ==
  IF RewriteTrigger(filterJSON)
  THEN The({ [val |-> IF c.err THEN filterJSON ELSE c.out,
              err |-> c.err, ran |-> TRUE]
             : c \in {ConvertFilterJSON(filterJSON)} })
  ELSE [val |-> filterJSON, err |-> FALSE, ran |-> FALSE]

ZeroResp ==
  [Compression |-> <<>>, FilterJSON |-> <<>>, Format |-> "", Pattern |-> "",
   LiveEventsSqsArn |-> <<>>, PartitionBy |-> "", SourceBucket |-> <<>>,
   IndexRetention |-> 0, ArrayFlattenDepth |-> NilInt,
   KeepOriginal |-> FALSE, Horizontal |-> FALSE,
   ColumnRenames |-> {}, ColumnSelection |-> <<>>, ColumnTypes |-> {}]

\* The k-th statement group of mapBucketTaggingToResponse, run on *v:
\* [v, err], with v as the group leaves it (an error returns before the
\* fields are assigned).
Assign(v, r, w) ==
  [v |-> IF r.err THEN v ELSE w, err |-> r.err, ran |-> FALSE]

mapStage(k, tags, v) ==
  IF k = 1 THEN
    The({ Assign(v, r, [v EXCEPT !.SourceBucket = r.val])
          : r \in {readStringTagValue(tags, "cs3.parent", v.SourceBucket)} })
  ELSE IF k = 2 THEN
    The({ Assign(v, r, [v EXCEPT !.Compression = r.val])
          : r \in {readStringTagValue(tags, "cs3.compression", v.Compression)} })
  ELSE IF k = 3 THEN
    The({ Assign(v, r, [v EXCEPT !.LiveEventsSqsArn = r.val])
          : r \in {readStringTagValue(tags, "cs3.live-sqs-arn",
                                      v.LiveEventsSqsArn)} })
  ELSE IF k = 4 THEN
    The({ Assign(v, r, [v EXCEPT !.Format = r.val.Type,
                                 !.Pattern = r.val.Pattern,
                                 !.ArrayFlattenDepth = r.val.ArrayFlattenDepth,
                                 !.KeepOriginal = r.val.KeepOriginal,
                                 !.Horizontal = r.val.Horizontal])
          : r \in {readJSONTagValue(tags, "cs3.dataset-format", "filterObject",
                                    ZeroFilterObject)} })
  ELSE IF k = 5 THEN
    The({ Assign(v, r, [v EXCEPT !.FilterJSON = r.val])
          : r \in {readStringTagValue(tags, "cs3.predicate", v.FilterJSON)} })
  ELSE IF k = 6 THEN
    The({ [Assign(v, r, [v EXCEPT !.FilterJSON = r.val]) EXCEPT !.ran = r.ran]
          : r \in {RewriteFilter(v.FilterJSON)} })
  ELSE
    The({ Assign(v, r, [v EXCEPT !.IndexRetention = r.val.Overall])
          : r \in {readJSONTagValue(tags, "cs3.index-retention",
                                    "retentionObject", ZeroRetentionObject)} })

RECURSIVE mapStages(_, _, _)
mapStages(k, tags, v) ==
  IF k > 7 THEN [v |-> v, err |-> FALSE, ran |-> FALSE]
  ELSE The({ IF s.err THEN s
             ELSE The({ [n EXCEPT !.ran = n.ran \/ s.ran]
                        : n \in {mapStages(k + 1, tags, s.v)} })
             : s \in {mapStage(k, tags, v)} })

\* mapBucketTaggingToResponse: [v, err, ran], v as the function leaves *v.
mapBucketTaggingToResponse(tags, v) == mapStages(1, tags, v)

(***************************************************************************)
(* Dataset endpoint: the colSelection shim.  A map is a function from its  *)
(* keys to the JSON spelling of the values.                                *)
(***************************************************************************)
NormalizeAllColumnSelection(sel) ==
  [i \in 1..Len(sel) |->
     IF "include" \in DOMAIN sel[i] THEN sel[i]
     ELSE [k \in DOMAIN sel[i] \cup {"include"} |->
             IF k = "include" THEN "false" ELSE sel[i][k]]]

NormalizeColumnSelection(sel) ==
  IF Len(sel) > 0 /\ "include" \notin DOMAIN sel[1]
  THEN [sel EXCEPT ![1] =
          [k \in DOMAIN sel[1] \cup {"include"} |->
             IF k = "include" THEN "false" ELSE sel[1][k]]]
  ELSE sel

(***************************************************************************)
(* SetActive's body and providerConfigure's checks.                        *)
(***************************************************************************)
IntTok(n) == (CHOOSE l \in NumLits : l.isInt /\ l.val = n).raw

ModelModeInverted(active) == IF active THEN -1 ELSE 0

\* var modelMode int; if req.Active { 0 } else { -1 }
ModelMode(active) == IF active THEN 0 ELSE -1

\* json.Marshal of the body map: keys in sorted order.
marshalSetActiveRequest(r) ==
  <<"{", "\"BucketName\"", ":", Quote(r.ObjectGroupName), ",",
         "\"ModelMode\"", ":", IntTok(ModelMode(r.Active)), "}">>

ValidateConfigNoRegion(d) ==
  IF d.url = "" THEN "Expected 'url' to be defined"
  ELSE IF d.access_key_id = "" THEN "Expected 'access_key_id' to be defined"
  ELSE IF d.secret_access_key = "" THEN "Expected 'secret_access_key' to be defined"
  ELSE ""

\* The four emptiness checks: the diagnostic of the first that fails, "" if none.
ValidateConfig(d) ==
  IF d.url = "" THEN "Expected 'url' to be defined"
  ELSE IF d.access_key_id = "" THEN "Expected 'access_key_id' to be defined"
  ELSE IF d.secret_access_key = "" THEN "Expected 'secret_access_key' to be defined"
  ELSE IF d.region = "" THEN "Expected 'region' to be defined"
  ELSE ""

(***************************************************************************)
(* Inputs.                                                                 *)
(***************************************************************************)
Seqs(S, n) == UNION { [1..k -> S] : k \in 0..n }

RECURSIVE Join(_, _)
Join(parts, i) ==
  IF i > Len(parts) THEN <<>>
  ELSE (IF i > 1 THEN <<",">> ELSE <<>>) \o parts[i] \o Join(parts, i + 1)

\* An item [f, p, s] holds the raw tokens of field, pattern and strict.
InputItemText(it) ==
  <<"{", "\"field\"", ":", it.f, ",", "\"regex\"", ":",
    "{", "\"pattern\"", ":", it.p, ",", "\"strict\"", ":", it.s, "}", "}">>
\* An item [f, r] holds the raw tokens of field and regex.
DesiredItemText(it) ==
  <<"{", "\"field\"", ":", it.f, ",", "\"regex\"", ":", it.r, "}">>

AndDoc(parts) == <<"{", "\"AND\"", ":", "[">> \o Join(parts, 1) \o <<"]", "}">>
InputDoc(q)   == AndDoc([i \in 1..Len(q) |-> InputItemText(q[i])])
DesiredDoc(q) == AndDoc([i \in 1..Len(q) |-> DesiredItemText(q[i])])

InputItems ==
  [f : {"\"key\"", "\"pattern\""}, p : {"\".*\"", "\"pattern\"", "\"<\""},
   s : {"true", "false"}]
DesiredItems ==
  [f : {"\"key\"", "\"pattern\""}, r : {"\".*\"", "\"<\""}]

\* The smaller pools the tag values are drawn from.
TagInputItems ==
  { [f |-> "\"key\"",     p |-> "\".*\"",      s |-> "true"],
    [f |-> "\"pattern\"", p |-> "\".*\"",      s |-> "false"],
    [f |-> "\"key\"",     p |-> "\"pattern\"", s |-> "true"] }
TagDesiredItems ==
  { [f |-> "\"key\"",     r |-> "\".*\""],
    [f |-> "\"key\"",     r |-> "\"<\""],
    [f |-> "\"pattern\"", r |-> "\".*\""] }

KeyItem == [f |-> "\"key\"", p |-> "\".*\"", s |-> "true"]

\* Predicate texts in neither shape, or not JSON at all.
OtherPredicates ==
  { <<"{", "\"pattern\"", ":", "\".*\"", "}">>,
    <<"{", "\"OR\"", ":", "[">> \o InputItemText(KeyItem) \o <<"]", "}">>,
    <<"{", "\"OR\"", ":", "[", "]", "}">>,
    <<"{", "\"and\"", ":", "[">> \o InputItemText(KeyItem) \o <<"]", "}">>,
    <<"{", "\"AND\"", ":", "[", "{", "\"field\"", ":", "\"pattern\"", "}", "]", "}">>,
    <<"{", "\"AND\"", ":", "[">> \o InputItemText(KeyItem),
    <<"pattern">>,
    <<"{", "\"AND\"", ":", "[", "{", "\"field\"", ":", "\"key\"", ",",
      "\"regex\"", ":", "{", "\"patt\\u0065rn\"", ":", "\".*\"", ",",
      "\"strict\"", ":", "true", "}", "}", "]", "}">>,
    <<"{", " ", "\"AND\"", ":", " ", "[", "]", " ", "}">> }

PredicateTagValues ==
  { InputDoc(q) : q \in Seqs(TagInputItems, MaxAnd) }
    \cup { DesiredDoc(q) : q \in Seqs(TagDesiredItems, MaxAnd) }
    \cup OtherPredicates

DatasetFormatTagValues ==
  { <<"{", "\"_type\"", ":", "\"JSON\"", ",", "\"pattern\"", ":", "\".*\"", ",",
      "\"arrayFlattenDepth\"", ":", "1", ",", "\"keepOriginal\"", ":", "true",
      ",", "\"horizontal\"", ":", "false", "}">>,
    <<"{", "\"_type\"", ":", "\"JSON\"", ",", "\"pattern\"", ":">>,
    <<"{", "\"_type\"", ":", "\"JSON\"", ",", "\"arrayFlattenDepth\"", ":",
      "\"30\"", "}">> }

IndexRetentionTagValues ==
  { <<"{", "\"overall\"", ":", " ", "30", "}">>,
    <<"{", "\"overall\"", ":">>,
    <<"{", "\"overall\"", ":", "\"30\"", "}">> }

TagKeys ==
  <<"cs3.parent", "cs3.compression", "cs3.live-sqs-arn", "cs3.dataset-format",
    "cs3.predicate", "cs3.index-retention">>

TagValues(key) ==
  IF key = "cs3.parent" THEN { <<"source-bucket">> }
  ELSE IF key = "cs3.compression" THEN { <<"gzip">> }
  ELSE IF key = "cs3.live-sqs-arn" THEN { <<"arn:aws:sqs:q">> }
  ELSE IF key = "cs3.dataset-format" THEN DatasetFormatTagValues
  ELSE IF key = "cs3.predicate" THEN PredicateTagValues
  ELSE IndexRetentionTagValues

\* A tag set: at most one tag per key, in TagKeys order, from the optional
\* values c[i] (<<>> absent, <<value>> present); dup adds a second
\* cs3.compression tag after the first.
Opt(S) == { <<>> } \cup { <<x>> : x \in S }

RECURSIVE TagSetOf(_, _)
TagSetOf(c, i) ==
  IF i > Len(TagKeys) THEN <<>>
  ELSE (IF c[i] = <<>> THEN <<>>
        ELSE <<[Key |-> TagKeys[i], Value |-> c[i][1]]>>)
       \o TagSetOf(c, i + 1)

DupTag == [Key |-> "cs3.compression", Value |-> <<"none">>]

Names == {"og-a", "og-b"}

SelElems ==
  { [k \in {"type"} |-> "\"whitelist\""],
    [k \in {"type", "include"} |-> IF k = "include" THEN "true" ELSE "\"whitelist\""],
    [k \in {"type", "include"} |-> IF k = "include" THEN "false" ELSE "\"blacklist\""],
    [k \in {"include"} |-> "null"] }

DatasetResponses ==
  { [PartitionBy |-> IF Len(sel) = 0 THEN "" ELSE "key",
     Options |-> [ColumnRenames |-> IF Len(sel) = 0 THEN {} ELSE {<<"a", "b">>},
                  ColumnSelection |-> sel,
                  ColumnTypes |-> IF Len(sel) = 0 THEN {} ELSE {<<"a", "int">>}]]
    : sel \in Seqs(SelElems, MaxSel) }

ZeroDatasetResp ==
  [PartitionBy |-> "",
   Options |-> [ColumnRenames |-> {}, ColumnSelection |-> <<>>, ColumnTypes |-> {}]]

(***************************************************************************)
(* State machine.  One client runs one operation at a time; the locals of  *)
(* an operation are dropped when it returns.                               *)
(***************************************************************************)
NoReq == [none |-> TRUE]
NoRet == [val |-> <<>>, err |-> ""]
NoCv  == [val |-> <<>>, err |-> FALSE, ran |-> FALSE]

Init ==
  /\ op = "idle" /\ pc = "idle" /\ req = NoReq
  /\ tagging = <<>> /\ resp = ZeroResp /\ getDatasetResp = ZeroDatasetResp
  /\ rewriteRan = FALSE
  /\ ret = NoRet /\ calls = <<>> /\ body = <<>>
  /\ csClient = <<>> /\ logFile = "none"
  /\ cvIn = <<>> /\ cvOut = NoCv /\ cvAgain = NoCv

\* ReadObjectGroup's control flow after the tagging stage: an error returns.
AfterTaggingIgnoreErr(err) == "dataset"

AfterTagging(err) == IF err # "" THEN "done" ELSE "dataset"

\* ReadObjectGroup, first stage: readAttributesFromBucketTagging on a fresh
\* resp.  The session may fail to build, the fetch may fail, or a tag set
\* arrives and is mapped.
readAttributesFromBucketTagging ==
  /\ op = "idle"
  /\ \E id \in Names :
       /\ op' = "ReadObjectGroup"
       /\ req' = [ID |-> id]
       /\ \/ /\ calls' = <<>>
             /\ tagging' = <<>> /\ resp' = ZeroResp /\ rewriteRan' = FALSE
             /\ ret' = [val |-> <<>>, err |-> "Failed to create AWS session"]
             /\ pc' = AfterTagging(ret'.err)
          \/ /\ calls' = <<"GetBucketTagging">>
             /\ tagging' = <<>> /\ resp' = ZeroResp /\ rewriteRan' = FALSE
             /\ ret' = [val |-> <<>>, err |-> "Failed to read bucket tagging"]
             /\ pc' = AfterTagging(ret'.err)
          \/ \E c1 \in Opt(TagValues(TagKeys[1])), c2 \in Opt(TagValues(TagKeys[2])),
                c3 \in Opt(TagValues(TagKeys[3])), c4 \in Opt(TagValues(TagKeys[4])),
                c5 \in Opt(TagValues(TagKeys[5])), c6 \in Opt(TagValues(TagKeys[6])),
                dup \in BOOLEAN :
               /\ dup => c2 # <<>>
               /\ tagging' = TagSetOf(<<c1, c2, c3, c4, c5, c6>>, 1)
                                \o (IF dup THEN <<DupTag>> ELSE <<>>)
               /\ \E m \in {mapBucketTaggingToResponse(tagging', ZeroResp)} :
                  /\ calls' = <<"GetBucketTagging">>
                  /\ resp' = m.v
                  /\ rewriteRan' = m.ran
                  /\ ret' = [val |-> <<>>,
                             err |-> IF m.err
                                     THEN "Failed to unmarshal XML response body"
                                     ELSE ""]
                  /\ pc' = AfterTagging(ret'.err)
  /\ UNCHANGED <<getDatasetResp, body, csClient, logFile, cvIn, cvOut, cvAgain>>

\* ReadObjectGroup, second stage and return: readAttributesFromDatasetEndpoint.
readAttributesFromDatasetEndpoint ==
  /\ op = "ReadObjectGroup" /\ pc = "dataset"
  /\ pc' = "done"
  /\ tagging' = <<>>
  /\ \/ /\ calls' = calls
        /\ ret' = [val |-> <<>>, err |-> "Failed to create request"]
        /\ UNCHANGED <<resp, getDatasetResp>>
     \/ /\ calls' = Append(calls, "GET /Bucket/dataset/name")
        /\ \/ /\ ret' = [val |-> <<>>, err |-> "Failed to GET"]
              /\ UNCHANGED <<resp, getDatasetResp>>
           \/ /\ ret' = [val |-> <<>>,
                         err |-> "Failed to unmarshal JSON response body"]
              /\ UNCHANGED <<resp, getDatasetResp>>
           \/ \E d \in DatasetResponses :
                /\ getDatasetResp' = d
                /\ resp' = [resp EXCEPT
                      !.PartitionBy = d.PartitionBy,
                      !.ColumnRenames = d.Options.ColumnRenames,
                      !.ColumnSelection =
                          NormalizeColumnSelection(d.Options.ColumnSelection),
                      !.ColumnTypes = d.Options.ColumnTypes]
                /\ ret' = [val |-> <<resp'>>, err |-> ""]
  /\ UNCHANGED <<op, req, rewriteRan, body, csClient, logFile,
                 cvIn, cvOut, cvAgain>>

\* SetActive: marshal the body, build and send the request.
SetActive ==
  /\ op = "idle"
  /\ \E name \in Names, active \in BOOLEAN :
       /\ op' = "SetActive" /\ pc' = "done"
       /\ req' = [ObjectGroupName |-> name, Active |-> active]
       /\ body' = marshalSetActiveRequest(req')
       /\ \/ /\ calls' = <<>>
             /\ ret' = [val |-> <<>>, err |-> "Failed to create request"]
          \/ /\ calls' = <<"POST /Bucket/model">>
             /\ \E e \in {"", "Failed to POST"} : ret' = [val |-> <<>>, err |-> e]
  /\ UNCHANGED <<tagging, resp, getDatasetResp, rewriteRan, csClient, logFile,
                 cvIn, cvOut, cvAgain>>

\* providerConfigure.  The goroutine it starts waits on a context that is
\* never done, so it never takes a step.
providerConfigure ==
  /\ op = "idle"
  /\ \E d \in [url : {"", "https://cs"}, access_key_id : {"", "AK"},
               secret_access_key : {"", "SK"}, region : {"", "eu-west-1"}],
        created \in BOOLEAN :
       /\ op' = "providerConfigure" /\ pc' = "done"
       /\ req' = d
       /\ IF ValidateConfig(d) # ""
          THEN /\ ret' = [val |-> <<>>, err |-> ValidateConfig(d)]
               /\ csClient' = <<>> /\ logFile' = "none"
          ELSE /\ csClient' = <<[config |-> d]>>
               /\ IF created
                  THEN /\ logFile' = "open"
                       /\ ret' = [val |-> <<[Client |-> csClient'[1]]>>, err |-> ""]
                  ELSE /\ logFile' = "none"
                       /\ ret' = [val |-> <<>>, err |-> "os.Create failed"]
  /\ UNCHANGED <<tagging, resp, getDatasetResp, rewriteRan, calls, body,
                 cvIn, cvOut, cvAgain>>

\* ConvertFilterJSON applied to a document in the Input Shape.
Convert ==
  /\ op = "idle"
  /\ \E q \in Seqs(InputItems, MaxAnd) :
       /\ op' = "ConvertFilterJSON" /\ pc' = "done"
       /\ req' = [items |-> q]
       /\ cvIn' = InputDoc(q)
       /\ \E c \in {ConvertFilterJSON(cvIn')} :
            cvOut' = [val |-> c.out, err |-> c.err, ran |-> TRUE]
  /\ UNCHANGED <<tagging, resp, getDatasetResp, rewriteRan, ret, calls, body,
                 csClient, logFile, cvAgain>>

\* The rewrite step (needle test, then ConvertFilterJSON) applied to a
\* filter text, and then once more to what it produced.
Rewrite ==
  /\ op = "idle"
  /\ \E q \in Seqs(InputItems, MaxAnd) :
       /\ op' = "Rewrite" /\ pc' = "again"
       /\ req' = [items |-> q]
       /\ cvIn' = InputDoc(q)
       /\ cvOut' = RewriteFilter(cvIn')
  /\ UNCHANGED <<tagging, resp, getDatasetResp, rewriteRan, ret, calls, body,
                 csClient, logFile, cvAgain>>

RewriteAgain ==
  /\ op = "Rewrite" /\ pc = "again" /\ ~cvOut.err
  /\ pc' = "done"
  /\ cvAgain' = RewriteFilter(cvOut.val)
  /\ UNCHANGED <<op, req, tagging, resp, getDatasetResp, rewriteRan, ret,
                 calls, body, csClient, logFile, cvIn, cvOut>>

\* The operation has returned; its caller goes on to the next one.
Return ==
  /\ op # "idle" /\ pc = "done"
  /\ op' = "idle" /\ pc' = "idle" /\ req' = NoReq
  /\ tagging' = <<>> /\ resp' = ZeroResp /\ getDatasetResp' = ZeroDatasetResp
  /\ rewriteRan' = FALSE
  /\ ret' = NoRet /\ calls' = <<>> /\ body' = <<>>
  /\ csClient' = <<>> /\ logFile' = "none"
  /\ cvIn' = <<>> /\ cvOut' = NoCv /\ cvAgain' = NoCv

Next ==
  \/ readAttributesFromBucketTagging
  \/ readAttributesFromDatasetEndpoint
  \/ SetActive
  \/ providerConfigure
  \/ Convert
  \/ Rewrite
  \/ RewriteAgain
  \/ Return

Spec == Init /\ [][Next]_vars

(***************************************************************************)
(* Properties.                                                             *)
(***************************************************************************)
\* Shapes of a parsed document, checked strictly.
Keys(o) == { o.a[i].k : i \in 1..Len(o.a) }
ExactKeys(o, ks) == o.t = "obj" /\ Keys(o) = ks /\ Len(o.a) = Cardinality(ks)
Member(o, k) == o.a[CHOOSE i \in 1..Len(o.a) : o.a[i].k = k].v

IsInputItem(e) ==
  /\ ExactKeys(e, {"field", "regex"})
  /\ Member(e, "field").t = "str"
  /\ ExactKeys(Member(e, "regex"), {"pattern", "strict"})
  /\ Member(Member(e, "regex"), "pattern").t = "str"
  /\ Member(Member(e, "regex"), "strict").t = "bool"

IsDesiredItem(e) ==
  /\ ExactKeys(e, {"field", "regex"})
  /\ Member(e, "field").t = "str"
  /\ Member(e, "regex").t = "str"

IsInputShape(text) ==
  LET p == Parse(text) IN
  /\ p.ok
  /\ ExactKeys(p.v, {"AND"})
  /\ Member(p.v, "AND").t = "arr"
  /\ \A i \in 1..Len(Member(p.v, "AND").a) : IsInputItem(Member(p.v, "AND").a[i])

IsDesiredShape(text) ==
  LET p == Parse(text) IN
  /\ p.ok
  /\ ExactKeys(p.v, {"AND"})
  /\ Member(p.v, "AND").t = "arr"
  /\ \A i \in 1..Len(Member(p.v, "AND").a) : IsDesiredItem(Member(p.v, "AND").a[i])

\* The [Field, Regex] values of a Desired Shape document, in order.
DesiredItemsOf(text) ==
  LET l == Member(Parse(text).v, "AND").a IN
  [i \in 1..Len(l) |-> [Field |-> Member(l[i], "field").s,
                        Regex |-> Member(l[i], "regex").s]]

TagValueOf(key) == findTagValue(tagging, key).val

\* The read has fetched a tag set and run mapBucketTaggingToResponse on it.
Mapped ==
  /\ op = "ReadObjectGroup"
  /\ \/ pc = "dataset"
     \/ pc = "done" /\ ret.err = "Failed to unmarshal XML response body"

ValidDatasetFormat ==
  <<"{", "\"_type\"", ":", "\"JSON\"", ",", "\"pattern\"", ":", "\".*\"", ",",
    "\"arrayFlattenDepth\"", ":", "1", ",", "\"keepOriginal\"", ":", "true",
    ",", "\"horizontal\"", ":", "false", "}">>
ValidIndexRetention == <<"{", "\"overall\"", ":", " ", "30", "}">>

MalformedDatasetFormat ==
  HasTag(tagging, "cs3.dataset-format")
    /\ TagValueOf("cs3.dataset-format") # ValidDatasetFormat
MalformedIndexRetention ==
  HasTag(tagging, "cs3.index-retention")
    /\ TagValueOf("cs3.index-retention") # ValidIndexRetention

\* C1: for every document in the Input Shape, the empty AND list included,
\* ConvertFilterJSON succeeds and returns a Desired Shape document with the
\* same items in the same order, regex being the item's pattern.
C1_ConvertKeepsItems ==
  (op = "ConvertFilterJSON" /\ pc = "done") =>
     /\ ~cvOut.err
     /\ IsDesiredShape(cvOut.val)
     /\ DesiredItemsOf(cvOut.val) =
          [i \in 1..Len(req.items) |-> [Field |-> Unquote(req.items[i].f),
                                        Regex |-> Unquote(req.items[i].p)]]

\* The same statement for the documents with at least one item.
ConvertKeepsItemsNonEmpty ==
  (op = "ConvertFilterJSON" /\ pc = "done" /\ Len(req.items) > 0) =>
     /\ ~cvOut.err
     /\ IsDesiredShape(cvOut.val)
     /\ DesiredItemsOf(cvOut.val) =
          [i \in 1..Len(req.items) |-> [Field |-> Unquote(req.items[i].f),
                                        Regex |-> Unquote(req.items[i].p)]]

\* C2: once the trigger fires, a predicate text that is not JSON or not in
\* the Input Shape makes the read fail with no response; FilterJSON is never
\* silently replaced.
C2_TriggeredMismatchFails ==
  (/\ Mapped
   /\ HasTag(tagging, "cs3.predicate")
   /\ ~MalformedDatasetFormat
   /\ Contains(TagValueOf("cs3.predicate"))
   /\ ~IsInputShape(TagValueOf("cs3.predicate")))
  => (pc = "done" /\ ret.err # "" /\ ret.val = <<>>)

\* C3: the rewrite step applied to its own output is a no-op, whatever the
\* field values and patterns of the Input Shape document are.
C3_RewriteIdempotent ==
  (op = "Rewrite" /\ pc = "done") =>
     (~cvAgain.ran /\ ~cvAgain.err /\ cvAgain.val = cvOut.val)

\* C4: the read calls ConvertFilterJSON exactly when the cs3.predicate value
\* contains "pattern"; a value without it (or an absent tag) leaves
\* FilterJSON equal to the tag value (or empty).
C4_RewriteOnlyOnNeedle ==
  Mapped =>
    IF MalformedDatasetFormat THEN ~rewriteRan
    ELSE IF ~HasTag(tagging, "cs3.predicate")
      THEN ~rewriteRan /\ resp.FilterJSON = <<>>
    ELSE /\ rewriteRan <=> Contains(TagValueOf("cs3.predicate"))
         /\ ~Contains(TagValueOf("cs3.predicate")) =>
               resp.FilterJSON = TagValueOf("cs3.predicate")

C4_Witness ==
  /\ Mapped /\ pc = "dataset"
  /\ HasTag(tagging, "cs3.predicate")
  /\ IsDesiredShape(TagValueOf("cs3.predicate"))
  /\ Len(DesiredItemsOf(TagValueOf("cs3.predicate"))) = 2
  /\ ~rewriteRan
  /\ resp.FilterJSON = TagValueOf("cs3.predicate")

\* C5: an absent tag is never an error.  The mapping fails only when a
\* present tag is malformed or its rewrite fails; when it succeeds, every
\* attribute of an absent tag is at its zero value and the attributes of
\* the present tags hold the tag's value.
C5_AbsentTagNoError ==
  Mapped =>
    /\ (pc = "done") =>
          \/ MalformedDatasetFormat
          \/ MalformedIndexRetention
          \/ HasTag(tagging, "cs3.predicate")
               /\ Contains(TagValueOf("cs3.predicate"))
               /\ ~IsInputShape(TagValueOf("cs3.predicate"))
    /\ (pc = "dataset") =>
          /\ resp.SourceBucket = TagValueOf("cs3.parent")
          /\ resp.Compression = TagValueOf("cs3.compression")
          /\ resp.LiveEventsSqsArn = TagValueOf("cs3.live-sqs-arn")
          /\ IF HasTag(tagging, "cs3.dataset-format")
             THEN /\ resp.Format = "JSON" /\ resp.Pattern = ".*"
                  /\ resp.ArrayFlattenDepth = [set |-> TRUE, val |-> 1]
                  /\ resp.KeepOriginal /\ ~resp.Horizontal
             ELSE /\ resp.Format = "" /\ resp.Pattern = ""
                  /\ resp.ArrayFlattenDepth = NilInt
                  /\ ~resp.KeepOriginal /\ ~resp.Horizontal
          /\ resp.IndexRetention =
               (IF HasTag(tagging, "cs3.index-retention") THEN 30 ELSE 0)
          /\ HasTag(tagging, "cs3.predicate") <=> resp.FilterJSON # <<>>

C5_Witness ==
  /\ Mapped /\ pc = "dataset"
  /\ ~HasTag(tagging, "cs3.parent") /\ resp.SourceBucket = <<>>
  /\ ~HasTag(tagging, "cs3.dataset-format") /\ resp.Format = ""
  /\ ~HasTag(tagging, "cs3.predicate") /\ resp.FilterJSON = <<>>
  /\ HasTag(tagging, "cs3.compression") /\ resp.Compression = <<"gzip">>
  /\ HasTag(tagging, "cs3.index-retention") /\ resp.IndexRetention = 30

\* C6: a present cs3.dataset-format or cs3.index-retention tag whose value is
\* not valid JSON for its shape ends the read with an error and a nil
\* response, whatever the other tags are.
C6_MalformedJSONTagFails ==
  (op = "ReadObjectGroup" /\ (MalformedDatasetFormat \/ MalformedIndexRetention))
  => /\ pc = "done"
     /\ ret.val = <<>>
     /\ ret.err = "Failed to unmarshal XML response body"

C6_Witness ==
  /\ op = "ReadObjectGroup" /\ pc = "done"
  /\ MalformedIndexRetention /\ ~MalformedDatasetFormat
  /\ HasTag(tagging, "cs3.dataset-format")
  /\ HasTag(tagging, "cs3.parent")
  /\ resp.SourceBucket = <<"source-bucket">> /\ resp.Format = "JSON"
  /\ ret.val = <<>> /\ ret.err # ""

C8_SetActiveBody ==
  (op = "SetActive") =>
    LET p == Parse(body) IN
    /\ p.ok
    /\ ExactKeys(p.v, {"BucketName", "ModelMode"})
    /\ Member(p.v, "BucketName") = JV("str", req.ObjectGroupName, <<>>)
    /\ Member(p.v, "ModelMode") =
         JV("num", IF req.Active THEN "0" ELSE "-1", <<>>)

C8_Witness ==
  /\ op = "SetActive" /\ ~req.Active /\ calls = <<"POST /Bucket/model">>
  /\ body = <<"{", "\"BucketName\"", ":", "\"og-b\"", ",",
                   "\"ModelMode\"", ":", "-1", "}">>

\* C9: providerConfigure returns an error and no provider meta, creates no
\* client and opens no log file when url, access_key_id, secret_access_key
\* or region is empty; it returns a ProviderMeta with a client only when
\* all four are set.
AnySettingEmpty ==
  req.url = "" \/ req.access_key_id = "" \/ req.secret_access_key = ""
    \/ req.region = ""

C9_ConfigValidated ==
  (op = "providerConfigure") =>
    /\ AnySettingEmpty =>
         (ret.err # "" /\ ret.val = <<>> /\ csClient = <<>> /\ logFile = "none")
    /\ ret.val # <<>> =>
         (~AnySettingEmpty /\ ret.err = "" /\ ret.val[1].Client.config = req)

C9_Witness ==
  /\ op = "providerConfigure"
  /\ req.url # "" /\ req.access_key_id # "" /\ req.secret_access_key # ""
  /\ req.region = ""
  /\ ret.err # "" /\ ret.val = <<>>

\* C10: the tag fetch comes first and at most once; the dataset fetch is
\* issued only after the tag stage succeeded, and at most once; a read that
\* returns a response made exactly these two calls in this order; a failure
\* of the tag stage ends the read before the dataset endpoint is contacted.
TagStageErrors ==
  { "Failed to create AWS session", "Failed to read bucket tagging",
    "Failed to unmarshal XML response body" }

C10_CallOrder ==
  (op = "ReadObjectGroup") =>
    /\ calls \in { <<>>, <<"GetBucketTagging">>,
                   <<"GetBucketTagging", "GET /Bucket/dataset/name">> }
    /\ pc = "dataset" => (calls = <<"GetBucketTagging">> /\ ret.err = "")
    /\ ret.val # <<>> =>
         calls = <<"GetBucketTagging", "GET /Bucket/dataset/name">>
    /\ ret.err \in TagStageErrors =>
         (pc = "done" /\ ret.val = <<>>
            /\ calls \in { <<>>, <<"GetBucketTagging">> })

C10_Witness ==
  /\ op = "ReadObjectGroup" /\ pc = "done" /\ ret.val # <<>>
  /\ calls = <<"GetBucketTagging", "GET /Bucket/dataset/name">>

====
